---- MODULE Spec2Model ----
(***************************************************************************)
(* Concurrent request dispatch and sampling engine of cs329_hw1:           *)
(*   inference/litellm_models.py  LiteLLMModel (send_request with tenacity *)
(*                                retry, send_requests over a thread pool) *)
(*   methods/simple_samplers.py   GreedyMethod, SampleMultiple             *)
(*   methods/__init__.py          get_sampler                              *)
(*   methods/verifiers.py         MATH500Verifier.verify                   *)
(*                                                                         *)
(* Python strings produced by the engine (responses, sentinels) are        *)
(* sequences of tokens; None is the empty sequence.  Temperatures are in   *)
(* tenths (0.7 is 7).  The object address that repr() of tenacity's last   *)
(* attempt carries is not part of the token sequence.                      *)
(***************************************************************************)
EXTENDS Integers, Sequences, FiniteSets, TLC

\* ---------------------------------------------------------------- bounds
MaxN == 2
MaxS == 2
MaxW == 2
MaxItems == 4

\* ------------------------------------------------------ program constants
MaxAttempts == 3
DefaultWorkers == 256
MaxTokens == 4096
DefaultTemperature == 7
TimeoutSeconds == 2

\* ------------------------------------------------------------ input values
Prompts == {"a", "b"}
SysPrompts == {<<>>, <<"sys">>}
Temps == {0, DefaultTemperature}
Methods == {"greedy", "sample_multiple", "beam"}
Variants == {"0", "1"}
ErrTypes == {"RateLimitError", "Timeout"}

None == <<>>

PyStr(s) == [type |-> "str", s |-> s]
PyInt == [type |-> "int", s |-> "7"]
Elements == {PyStr(p) : p \in Prompts} \cup {PyInt}

SeqsUpTo(S, n) == UNION {[1..k -> S] : k \in 0..n}

StrInput(p) == [type |-> "str", s |-> p, items |-> <<>>]
ListInput(l) == [type |-> "list", s |-> "", items |-> l]
OtherInput == [type |-> "NoneType", s |-> "", items |-> <<>>]
NoInput == [type |-> "-", s |-> "", items |-> <<>>]

Inputs ==
    {StrInput(p) : p \in Prompts}
        \cup {ListInput(l) : l \in SeqsUpTo(Elements, MaxN)}
        \cup {OtherInput}

VARIABLES
    apiKey,      \* whether OPENAI_API_KEY is set in the environment
    remote,      \* the completion service: "echo" (deterministic) or "any"
    pc,          \* position of the caller's thread
    cfg,         \* the constructed object's fields
    input,       \* the argument of the call in progress (or last finished)
    prompts,     \* the list handed to send_requests / the prompt of send_request
    futures,     \* the work items submitted so far, in submission order
    responses,   \* send_requests' slot array
    progress,    \* tqdm's counter
    result,      \* what the call returned
    signal,      \* the exception a construction or call raised ("" if none)
    prev,        \* history: input and result of the last call that returned
                 \* against the deterministic service
    cursor,      \* iterations of send_requests' collection loop completed
    counting,    \* history: whether completion calls are being counted
    calls,       \* history: completion calls issued since the call began
    ver          \* MATH500Verifier.verify: its arguments, position and value

vars == <<apiKey, remote, pc, cfg, input, prompts, futures, responses,
          progress, result, signal, prev, cursor, counting, calls, ver>>

callVars == <<input, prompts, futures, responses, progress, result, cursor,
              calls>>

\* ------------------------------------------------------------ construction
NoCfg ==
    [kind |-> "none", system_prompt |-> None, temperature |-> 0,
     max_tokens |-> 0, max_workers |-> 0, n_samples |-> 0]

\* LiteLLMModel.__init__: the fields it stores.
LiteLLMModelInit(kind, sys, temp, maxtok, w, n) ==
    [kind |-> kind, system_prompt |-> sys, temperature |-> temp,
     max_tokens |-> maxtok, max_workers |-> w, n_samples |-> n]

\* GreedyMethod.__init__: temperature is fixed, there is no such parameter.
GreedyInit(sys, w) == LiteLLMModelInit("greedy", sys, 0, MaxTokens, w, 0)

\* SampleMultiple.__init__: temperature is passed through unchecked.
SampleMultipleInit(sys, n, temp, w) ==
    LiteLLMModelInit("sample", sys, temp, MaxTokens, w, n)

Built(c) ==
    /\ pc = "new"
    /\ IF apiKey
         THEN /\ pc' = "idle"
              /\ cfg' = c
              /\ signal' = ""
         ELSE /\ pc' = "ctor_failed"
              /\ cfg' = NoCfg
              /\ signal' = "ValueError"
    /\ UNCHANGED <<apiKey, remote, callVars, prev, counting, ver>>

CtorRaise(sig) ==
    /\ pc = "new"
    /\ pc' = "ctor_failed"
    /\ cfg' = NoCfg
    /\ signal' = sig
    /\ UNCHANGED <<apiKey, remote, callVars, prev, counting, ver>>

\* LiteLLMModel(model, system_prompt, max_workers=w): temperature defaults
\* to 0.0.
NewLiteLLMModel(sys, w) ==
    Built(LiteLLMModelInit("model", sys, 0, MaxTokens, w, 0))

NewGreedyMethod(sys, w) == Built(GreedyInit(sys, w))

NewSampleMultiple(sys, n, temp, w) == Built(SampleMultipleInit(sys, n, temp, w))

GetSampler(method, sys, n, temp) ==
    IF method = "sample_multiple"
      THEN IF temp > 0
             THEN Built(SampleMultipleInit(sys, n, temp, DefaultWorkers))
             ELSE CtorRaise("AssertionError")
      ELSE IF method = "greedy"
             THEN IF temp = 0
                    THEN Built(GreedyInit(sys, DefaultWorkers))
                    ELSE CtorRaise("AssertionError")
             ELSE CtorRaise("ValueError")

\* ------------------------------------------------------------ send_request
\* messages = [{"content": prompt, "role": "user"}], the system prompt first
\* when it is truthy.
Messages(sys, prompt) ==
    IF sys # None /\ sys # <<"">>
      THEN <<[role |-> "system", content |-> sys[1]],
             [role |-> "user", content |-> prompt]>>
      ELSE <<[role |-> "user", content |-> prompt]>>

\* The completion service's text for a message sequence; v tells two
\* stochastic completions of the same messages apart.
Completion(messages, v) ==
    <<"re">> \o [i \in 1..Len(messages) |-> messages[i].content] \o <<v>>

\* Faulty variants of the stop rule: one attempt too few, one too many.
StopAfterTwo(n) == n >= MaxAttempts - 1

StopAfterFour(n) == n >= MaxAttempts + 1

\* stop_after_attempt(3)
StopAfterAttempt(n) == n >= MaxAttempts

\* str() of the RetryError tenacity raises once it stops: it names the
\* class of the last attempt's exception.
StrRetryError(lastErr) == <<"RetryError[", "raised ", lastErr, "]">>

\* f"Error: {str(e)}"
Sentinel(lastErr) == <<"Error: ">> \o StrRetryError(lastErr)

\* A work item: the futures list's pair (i, future) with the state of the
\* send_request it runs.  attempts is tenacity's attempt_number: the number
\* of completion calls issued so far by the call in progress; the retry
\* state ends with the call (0 once the item is done).
NewItem(i, p, st, n) ==
    [i |-> i, prompt |-> p, st |-> st, attempts |-> n, res |-> None]

Active == pc \in {"submit", "collect", "direct"}

Running(f) == f.st = "inflight"

RunningCount == Cardinality({j \in 1..Len(futures) : Running(futures[j])})

Queued == {j \in 1..Len(futures) : futures[j].st = "queued"}

\* Faulty variant: a thread per work item, whatever max_workers is.
WorkerFreeUncapped == TRUE

\* The pool never has more than max_workers threads, each running one item.
WorkerFree == RunningCount < cfg.max_workers

\* History only: one more completion call issued.
Counted(n) == IF counting THEN n + 1 ELSE n

\* A pool thread takes the oldest queued work item and runs send_request on
\* it, which issues the first completion call.
Take(j) ==
    /\ pc \in {"submit", "collect"}
    /\ j \in Queued
    /\ \A q \in Queued : j <= q
    /\ WorkerFree
    /\ futures' = [futures EXCEPT ![j].st = "inflight", ![j].attempts = 1]
    /\ calls' = Counted(calls)
    /\ UNCHANGED <<apiKey, remote, pc, cfg, input, prompts, responses,
                   progress, result, signal, prev, cursor, counting, ver>>

RemoteVariants == IF remote = "echo" THEN {"0"} ELSE Variants

\* Faulty variant: a further attempt is issued although this one returned.
AfterSuccessRetry(f, text) == [f EXCEPT !.attempts = @ + 1, !.res = text]

\* send_request's value when the attempt in flight returns text.
AfterSuccess(f, text) ==
    [f EXCEPT !.st = "done", !.attempts = 0, !.res = text]

\* The completion call returns.
RespondOk(j, v) ==
    /\ Active
    /\ j \in 1..Len(futures)
    /\ futures[j].st = "inflight"
    /\ v \in RemoteVariants
    /\ futures' = [futures EXCEPT ![j] =
           AfterSuccess(futures[j],
                        Completion(Messages(cfg.system_prompt,
                                            futures[j].prompt), v))]
    /\ UNCHANGED <<apiKey, remote, pc, cfg, input, prompts, responses,
                   progress, result, signal, prev, cursor, counting, calls, ver>>

\* Faulty variant: RetryError is not caught and ends the work item with
\* an exception instead of a value.
AfterFailureUncaught(f, e) ==
    IF f.attempts >= MaxAttempts
      THEN [f EXCEPT !.st = "raised", !.attempts = 0]
      ELSE [f EXCEPT !.attempts = @ + 1]

\* Faulty variant: the exhausted item is put back on the pool's queue.
AfterFailureRequeue(f, e) ==
    IF StopAfterAttempt(f.attempts)
      THEN [f EXCEPT !.st = "queued", !.attempts = 0]
      ELSE [f EXCEPT !.attempts = @ + 1]

\* Faulty variant: the exhausted item is recorded without a value.
AfterFailureNone(f, e) ==
    IF StopAfterAttempt(f.attempts)
      THEN [f EXCEPT !.st = "done", !.attempts = 0]
      ELSE [f EXCEPT !.attempts = @ + 1]

\* The attempt in flight raises: tenacity stops and raises RetryError, which
\* send_request turns into the sentinel, or it waits out the backoff and
\* issues the next completion call.
AfterFailure(f, e) ==
    IF StopAfterAttempt(f.attempts)
      THEN [f EXCEPT !.st = "done", !.attempts = 0, !.res = Sentinel(e)]
      ELSE [f EXCEPT !.attempts = @ + 1]

\* The completion call raises.
RespondFail(j, e) ==
    /\ Active
    /\ remote = "any"
    /\ j \in 1..Len(futures)
    /\ futures[j].st = "inflight"
    /\ futures' = [futures EXCEPT ![j] = AfterFailure(futures[j], e)]
    /\ calls' = IF Running(futures'[j]) THEN Counted(calls) ELSE calls
    /\ UNCHANGED <<apiKey, remote, pc, cfg, input, prompts, responses,
                   progress, result, signal, prev, cursor, counting, ver>>

\* ----------------------------------------------------------- send_requests
\* responses = [None] * len(prompts); the pool is created.
SendRequests(ps) ==
    /\ Len(ps) <= MaxItems
    /\ pc' = "submit"
    /\ prompts' = ps
    /\ responses' = [k \in 1..Len(ps) |-> None]
    /\ futures' = <<>>
    /\ progress' = 0
    /\ cursor' = 0
    /\ calls' = 0

\* executor.submit(self.send_request, prompt); futures.append((i, future))
Submit ==
    /\ pc = "submit"
    /\ Len(futures) < Len(prompts)
    /\ futures' = Append(futures,
                         NewItem(Len(futures) + 1,
                                 prompts[Len(futures) + 1], "queued", 0))
    /\ UNCHANGED <<apiKey, remote, pc, cfg, input, prompts, responses,
                   progress, result, signal, prev, cursor, counting, calls, ver>>

\* tqdm(total=len(prompts)) is opened once every prompt is submitted.
OpenProgress ==
    /\ pc = "submit"
    /\ Len(futures) = Len(prompts)
    /\ pc' = "collect"
    /\ progress' = 0
    /\ UNCHANGED <<apiKey, remote, cfg, input, prompts, futures, responses,
                   result, signal, prev, cursor, counting, calls, ver>>

\* Faulty variant: every result written to the first slot.
SlotOfFirst(k) == 1

\* Faulty variant: slots filled from the far end.
SlotOfReversed(k) == Len(futures) + 1 - futures[k].i

\* The slot future number k of the list is written to: the index stored
\* beside it.
SlotOf(k) == futures[k].i

\* Faulty variant: as_completed(futures), the latest-submitted finished
\* future first.
NextCompleted ==
    LET ready == {k \in 1..Len(futures) :
                     futures[k].st = "done" /\ responses[futures[k].i] = None}
    IN  IF ready = {} THEN cursor + 1
        ELSE CHOOSE k \in ready : \A m \in ready : m <= k

\* for i, future in futures: the loop takes the futures as they were
\* submitted.
NextFuture == cursor + 1

\* Faulty variant: the counter moved two at a time.
TqdmUpdateTwo(n) == n + 2

\* progress_bar.update(1)
TqdmUpdate(n) == n + 1

\* One iteration of the collection loop:
\* responses[i] = future.result(); progress_bar.update(1)
Collect ==
    /\ pc = "collect"
    /\ cursor < Len(futures)
    /\ LET k == NextFuture IN
         /\ futures[k].st = "done"
         /\ responses' = [responses EXCEPT ![SlotOf(k)] = futures[k].res]
    /\ progress' = TqdmUpdate(progress)
    /\ cursor' = cursor + 1
    /\ UNCHANGED <<apiKey, remote, pc, cfg, input, prompts, futures,
                   result, signal, prev, counting, calls, ver>>

\* ------------------------------------------------------------- the callers
\* Python's seq[lo:hi] for 0 <= lo <= hi, clipped to the sequence.
Slice(seq, lo, hi) ==
    LET h == IF hi > Len(seq) THEN Len(seq) ELSE hi
        l == IF lo > h THEN h ELSE lo
    IN  [k \in 1..(h - l) |-> seq[l + k]]

Strings(items) == [k \in 1..Len(items) |-> items[k].s]

AllStr(items) == \A k \in 1..Len(items) : items[k].type = "str"

\* Faulty variant: [prompt for _ in range(n_samples) for prompt in prompts]
ExpandInterleaved(ps, n) ==
    [k \in 1..(Len(ps) * n) |-> ps[((k - 1) % Len(ps)) + 1]]

\* [prompt for prompt in prompts for _ in range(n_samples)]
Expand(ps, n) == [k \in 1..(Len(ps) * n) |-> ps[((k - 1) \div n) + 1]]

\* [prompts] * n_samples
Repeat(p, n) == [k \in 1..n |-> p]

\* Faulty variant: chunks cut by stepping through the responses, with one
\* (empty) chunk when there is no response.
GroupByStep(rs, count, n) ==
    [g \in 1..(IF Len(rs) = 0 THEN 1 ELSE count) |->
        Slice(rs, (g - 1) * n, g * n)]

\* Faulty variant: responses[i::len(prompts)], a strided grouping.
GroupStrided(rs, count, n) ==
    [g \in 1..count |-> [j \in 1..n |-> rs[(j - 1) * count + g]]]

\* [responses[i*n : (i+1)*n] for i in range(len(prompts))]
Group(rs, count, n) ==
    [g \in 1..count |-> Slice(rs, (g - 1) * n, g * n)]

\* Faulty variant: [responses], one group holding every response.
WrapAll(rs) == <<rs>>

\* [[r] for r in responses]
WrapEach(rs) == [k \in 1..Len(rs) |-> <<rs[k]>>]

\* The value __call__ returns once send_requests has returned responses.
BatchResult(c, inp, rs) ==
    IF c.kind = "greedy" THEN WrapEach(rs)
    ELSE IF c.kind = "sample"
      THEN IF inp.type = "str" THEN <<rs>>
           ELSE Group(rs, Len(inp.items), c.n_samples)
    ELSE rs

\* Faulty variant: the single response wrapped once, not twice.
DirectResultSingleWrap(c, r) == IF c.kind = "greedy" THEN <<r>> ELSE r

\* The value __call__ returns once a direct send_request has returned r.
DirectResult(c, r) == IF c.kind = "greedy" THEN <<<<r>>>> ELSE r

\* Faulty variant: the elements of a list are not checked.
DispatchUnchecked(c, inp) ==
    IF inp.type = "str"
      THEN IF c.kind = "sample" THEN "batch" ELSE "direct"
    ELSE IF inp.type = "list" THEN "batch"
    ELSE "TypeError"

\* What the type checks at the head of __call__ decide:
\* "direct", "batch", or the exception raised.
Dispatch(c, inp) ==
    IF inp.type = "str"
      THEN IF c.kind = "sample" THEN "batch" ELSE "direct"
    ELSE IF inp.type = "list"
      THEN IF AllStr(inp.items) THEN "batch"
           ELSE IF c.kind = "model" THEN "ValueError" ELSE "AssertionError"
    ELSE "TypeError"

\* Faulty variant: the list to send is kept on the object and grows from
\* call to call.
PromptsToSendAccumulating(c, inp) ==
    prompts \o (IF c.kind = "sample"
                  THEN IF inp.type = "str" THEN Repeat(inp.s, c.n_samples)
                       ELSE Expand(Strings(inp.items), c.n_samples)
                  ELSE Strings(inp.items))

\* The flat list handed to send_requests.
PromptsToSend(c, inp) ==
    IF c.kind = "sample"
      THEN IF inp.type = "str" THEN Repeat(inp.s, c.n_samples)
           ELSE Expand(Strings(inp.items), c.n_samples)
    ELSE Strings(inp.items)

\* History only: the call that returned last, kept while the next one runs,
\* when the service is the deterministic one.
Remember ==
    IF remote = "echo" /\ pc = "returned"
      THEN [input |-> input, result |-> result]
      ELSE prev

Call(inp) ==
    /\ pc \in {"idle", "returned", "raised"}
    /\ input' = inp
    /\ result' = None
    /\ prev' = Remember
    /\ LET d == Dispatch(cfg, inp) IN
         IF d = "batch"
           THEN /\ SendRequests(PromptsToSend(cfg, inp))
                /\ signal' = ""
         ELSE IF d = "direct"
           THEN /\ pc' = "direct"
                /\ prompts' = <<inp.s>>
                /\ futures' = <<NewItem(1, inp.s, "inflight", 1)>>
                /\ responses' = <<>>
                /\ progress' = 0
                /\ cursor' = 0
                /\ calls' = Counted(0)
                /\ signal' = ""
         ELSE /\ pc' = "raised"
              /\ signal' = d
              /\ prompts' = <<>>
              /\ futures' = <<>>
              /\ responses' = <<>>
              /\ progress' = 0
              /\ cursor' = 0
              /\ calls' = 0
    /\ UNCHANGED <<apiKey, remote, cfg, counting, ver>>

\* send_requests returns responses and __call__ shapes them.
Return ==
    /\ pc = "collect"
    /\ cursor = Len(futures)
    /\ pc' = "returned"
    /\ result' = BatchResult(cfg, input, responses)
    /\ UNCHANGED <<apiKey, remote, cfg, input, prompts, futures, responses,
                   progress, signal, prev, cursor, counting, calls, ver>>

\* The direct send_request returns and __call__ shapes its value.
DirectReturn ==
    /\ pc = "direct"
    /\ futures[1].st = "done"
    /\ pc' = "returned"
    /\ result' = DirectResult(cfg, futures[1].res)
    /\ UNCHANGED <<apiKey, remote, cfg, input, prompts, futures, responses,
                   progress, signal, prev, cursor, counting, calls, ver>>

\* ----------------------------------------------------------------- verify
engineVars == <<apiKey, remote, pc, cfg, input, prompts, futures, responses,
                progress, result, signal, prev, cursor, counting, calls>>

\* An argument of verify: a text (a sequence of tokens) or not a string.
VText(toks) == [type |-> "str", s |-> toks]

VNone == [type |-> "none", s |-> <<>>]

Solutions ==
    {VText(<<"so", "boxed{", "4", "}">>), VText(<<"boxed{", "4", " ", "}">>),
     VText(<<"boxed{", "5", "}">>), VText(<<"4">>), VNone}

Truths == {VText(<<"4">>), VText(<<"5">>)}

VerIdle ==
    [pc |-> "idle", solution |-> VNone, truth |-> VNone, normalize |-> FALSE,
     answer |-> VNone, elapsed |-> 0, value |-> 0]

\* The position of the first token equal to t at or after position k
\* (Len + 1 if there is none).
Find(toks, t, k) ==
    LET hits == {i \in k..Len(toks) : toks[i] = t}
    IN  IF hits = {} THEN Len(toks) + 1
        ELSE CHOOSE i \in hits : \A h \in hits : i <= h

\* extract_answer(solution, "math"): the canonical answer substring, what
\* the box of the solution holds (nothing when there is no box).
ExtractAnswer(a) ==
    LET open == Find(a.s, "boxed{", 1)
        close == Find(a.s, "}", open + 1)
    IN  IF open > Len(a.s) THEN VText(<<>>)
        ELSE VText(Slice(a.s, open, close - 1))

\* strip_string: the answer without its blanks.
StripString(a) == VText(SelectSeq(a.s, LAMBDA t : t # " "))

\* The helpers work on strings: any other argument makes them raise.
ExtractionRaises(a) == a.type # "str"

\* math_equal(prediction, reference) once both are in canonical form.
MathEqual(a, b) == a = b

\* int(True) is 1, int(False) is 0.
IntOf(b) == IF b THEN 1 ELSE 0

\* verify up to the call of the time-limited math_equal: the extraction
\* runs before the try block is entered.
Verify(sol, gt, norm) ==
    /\ ver.pc \in {"idle", "returned", "raised"}
    /\ IF norm /\ ExtractionRaises(sol)
         THEN ver' = [pc |-> "raised", solution |-> sol, truth |-> gt,
                      normalize |-> norm, answer |-> VNone, elapsed |-> 0,
                      value |-> 0]
         ELSE ver' = [pc |-> "compare", solution |-> sol, truth |-> gt,
                      normalize |-> norm,
                      answer |-> IF norm THEN StripString(ExtractAnswer(sol))
                                 ELSE sol,
                      elapsed |-> 0, value |-> 0]
    /\ UNCHANGED engineVars

\* A second of the comparison goes by.
Tick ==
    /\ ver.pc = "compare"
    /\ ver.elapsed < TimeoutSeconds
    /\ ver' = [ver EXCEPT !.elapsed = @ + 1]
    /\ UNCHANGED engineVars

\* math_equal returns in time: return int(...)
CompareReturns ==
    /\ ver.pc = "compare"
    /\ ver.elapsed < TimeoutSeconds
    /\ ver' = [ver EXCEPT !.pc = "returned",
                          !.value = IntOf(MathEqual(ver.answer, ver.truth))]
    /\ UNCHANGED engineVars

\* math_equal raises in time: except Exception: return 0
CompareRaises ==
    /\ ver.pc = "compare"
    /\ ver.elapsed < TimeoutSeconds
    /\ ver' = [ver EXCEPT !.pc = "returned", !.value = 0]
    /\ UNCHANGED engineVars

\* The alarm goes off: except timeout_decorator.TimeoutError: return 0
TimeOut ==
    /\ ver.pc = "compare"
    /\ ver.elapsed = TimeoutSeconds
    /\ ver' = [ver EXCEPT !.pc = "returned", !.value = 0]
    /\ UNCHANGED engineVars

\* ------------------------------------------------------------ specification
NoPrev == [input |-> NoInput, result |-> None]

\* Nothing constructed yet.
Start ==
    /\ pc = "new"
    /\ cfg = NoCfg
    /\ input = NoInput
    /\ prompts = <<>>
    /\ futures = <<>>
    /\ responses = <<>>
    /\ progress = 0
    /\ result = None
    /\ signal = ""
    /\ prev = NoPrev
    /\ cursor = 0
    /\ calls = 0
    /\ ver = VerIdle

Init ==
    /\ apiKey \in BOOLEAN
    /\ remote \in {"echo", "any"}
    /\ counting = FALSE
    /\ Start

Construct ==
    \/ \E sys \in SysPrompts, w \in 1..MaxW : NewLiteLLMModel(sys, w)
    \/ \E sys \in SysPrompts, w \in 1..MaxW : NewGreedyMethod(sys, w)
    \/ \E sys \in SysPrompts, n \in 1..MaxS, t \in Temps, w \in 1..MaxW :
           NewSampleMultiple(sys, n, t, w)
    \/ \E m \in Methods, sys \in SysPrompts, n \in 1..MaxS, t \in Temps :
           GetSampler(m, sys, n, t)

Worker ==
    \/ \E j \in 1..MaxItems : Take(j)
    \/ \E j \in 1..MaxItems, v \in Variants : RespondOk(j, v)
    \/ \E j \in 1..MaxItems, e \in ErrTypes : RespondFail(j, e)

CallerStep ==
    \/ Submit
    \/ OpenProgress
    \/ Collect
    \/ Return
    \/ DirectReturn

Caller ==
    \/ \E inp \in Inputs : Call(inp)
    \/ CallerStep

Next == Construct \/ Worker \/ Caller

Spec == Init /\ [][Next]_vars

\* Pool threads and the caller's thread keep running, and every completion
\* call in flight resolves.
FairSpec == Spec /\ WF_vars(Worker) /\ WF_vars(CallerStep)

\* The same engine with the key present, the service free to fail, and
\* the completion calls of each call counted.
CountInit ==
    /\ apiKey = TRUE
    /\ remote = "any"
    /\ counting = TRUE
    /\ Start

CountSpec == CountInit /\ [][Next]_vars

\* The verifier on its own: it shares nothing with the engine.
VerifyInit ==
    /\ apiKey = FALSE
    /\ remote = "echo"
    /\ counting = FALSE
    /\ Start

VerifyNext ==
    \/ \E sol \in Solutions, gt \in Truths, norm \in BOOLEAN :
           Verify(sol, gt, norm)
    \/ Tick
    \/ CompareReturns
    \/ CompareRaises
    \/ TimeOut

VerifySpec == VerifyInit /\ [][VerifyNext]_vars

\* ------------------------------------------------------------------ claims
Completions(p) ==
    {Completion(Messages(cfg.system_prompt, p), v) : v \in Variants}

Sentinels == {Sentinel(e) : e \in ErrTypes}

\* What send_request may return for prompt p.
ValuesFor(p) == Completions(p) \cup Sentinels

InSendRequests == pc \in {"submit", "collect"}

BatchReturned == pc = "returned" /\ Dispatch(cfg, input) = "batch"

\* C1: send_requests returns one entry per prompt, and entry i is the value
\* the send_request submitted for prompt i produced, whatever the order in
\* which the work items finished.
C1_PositionalStability ==
    BatchReturned =>
        /\ Len(responses) = Len(prompts)
        /\ Len(futures) = Len(prompts)
        /\ \A i \in 1..Len(prompts) :
               /\ futures[i].prompt = prompts[i]
               /\ responses[i] = futures[i].res
               /\ responses[i] \in ValuesFor(prompts[i])

C1_Witness ==
    /\ BatchReturned
    /\ Len(prompts) >= 2
    /\ prompts[1] = prompts[2]
    /\ responses[1] \in Completions(prompts[1])
    /\ responses[2] \in ValuesFor(prompts[2])
    /\ responses[1] # responses[2]

\* C2: while send_requests runs, at most max_workers work items execute
\* send_request at once; the others wait in the queue.
C2_WorkerCap == InSendRequests => RunningCount <= cfg.max_workers

C2_Witness ==
    /\ InSendRequests
    /\ Len(prompts) > cfg.max_workers
    /\ RunningCount = cfg.max_workers
    /\ Queued # {}

\* C3: an attempt in flight either succeeds, and then send_request returns
\* that attempt's text at once (attempt k of 1..3, no further attempt), or
\* fails, and then before the third attempt the next attempt follows; a
\* finished request issues no more calls.
C3_FirstSuccessReturns ==
    [][\A j \in 1..Len(futures) :
          /\ (futures[j].st = "inflight" /\ futures'[j] # futures[j]) =>
                \/ /\ futures'[j].st = "done"
                   /\ futures'[j].res \in Completions(futures[j].prompt)
                   /\ futures[j].attempts \in 1..MaxAttempts
                \/ /\ futures'[j].st = "done"
                   /\ futures'[j].res \in Sentinels
                   /\ futures[j].attempts = MaxAttempts
                \/ /\ futures'[j].st = "inflight"
                   /\ futures[j].attempts < MaxAttempts
                   /\ futures'[j].attempts = futures[j].attempts + 1
                   /\ futures'[j].res = None
          /\ (futures[j].st = "done" /\ Active) => futures'[j] = futures[j]
      ]_vars

C3_Witness ==
    /\ pc = "direct"
    /\ futures[1].st = "inflight"
    /\ futures[1].attempts = MaxAttempts

\* C4: a request never gets a fourth attempt, and when the third attempt
\* fails send_request returns "Error: " followed by the description of the
\* exception it caught; nothing is raised to the caller.
C4_ExhaustedRetriesGiveSentinel ==
    /\ [](\A j \in 1..Len(futures) : futures[j].attempts <= MaxAttempts)
    /\ [][\A j \in 1..Len(futures) :
             (/\ futures[j].st = "inflight"
              /\ futures[j].attempts = MaxAttempts
              /\ futures'[j] # futures[j]
              /\ futures'[j].res \notin Completions(futures[j].prompt)) =>
                 /\ futures'[j].st = "done"
                 /\ \E e \in ErrTypes :
                        futures'[j].res = <<"Error: ">> \o StrRetryError(e)
                 /\ pc' = pc
                 /\ signal' = ""
         ]_vars

C4_Witness ==
    /\ pc = "returned"
    /\ Dispatch(cfg, input) = "direct"
    /\ cfg.kind = "model"
    /\ result \in Sentinels
    /\ signal = ""
\* C5: called with a list of N prompts, SampleMultiple returns N groups of
\* n_samples entries, and entry j of group i is what the j-th submitted
\* copy of prompt i returned.
C5_GroupedByPrompt ==
    (pc = "returned" /\ cfg.kind = "sample" /\ input.type = "list") =>
        LET N == Len(input.items)
            S == cfg.n_samples
        IN  /\ Len(result) = N
            /\ Len(futures) = N * S
            /\ \A i \in 1..N :
                   /\ Len(result[i]) = S
                   /\ \A j \in 1..S :
                          LET k == (i - 1) * S + j IN
                            /\ futures[k].prompt = input.items[i].s
                            /\ result[i][j] = futures[k].res
                            /\ result[i][j] \in ValuesFor(input.items[i].s)

C5_Witness ==
    /\ pc = "returned"
    /\ cfg.kind = "sample"
    /\ cfg.n_samples = 2
    /\ input = ListInput(<<PyStr("a"), PyStr("b")>>)
    /\ result[1][1] # result[1][2]
    /\ result[2][2] \in Sentinels
    /\ result[2][1] \in Completions("b")

\* C6: GreedyMethod issues one send_request per prompt: a single prompt
\* gives one group of one sample, a list of N prompts gives N groups, group
\* i holding the one response for prompt i.
C6_GreedyOnePerPrompt ==
    (pc = "returned" /\ cfg.kind = "greedy") =>
        IF input.type = "str"
          THEN /\ Len(futures) = 1
               /\ futures[1].prompt = input.s
               /\ Len(result) = 1
               /\ Len(result[1]) = 1
               /\ result[1][1] = futures[1].res
               /\ result[1][1] \in ValuesFor(input.s)
          ELSE /\ Len(futures) = Len(input.items)
               /\ Len(result) = Len(input.items)
               /\ \A i \in 1..Len(input.items) :
                      /\ futures[i].prompt = input.items[i].s
                      /\ Len(result[i]) = 1
                      /\ result[i][1] = futures[i].res
                      /\ result[i][1] \in ValuesFor(input.items[i].s)

C6_Witness ==
    /\ pc = "returned"
    /\ cfg.kind = "greedy"
    /\ input = ListInput(<<PyStr("a"), PyStr("b")>>)
    /\ result[1][1] \in Completions("a")
    /\ result[2][1] \in Completions("b")

\* The number of samples a strategy returns per prompt.
SamplesPer(c) == IF c.kind = "sample" THEN c.n_samples ELSE 1

IsStrategy == cfg.kind \in {"greedy", "sample"}

\* The prompt of a single-prompt call or of a one-element batch call.
SoleForms(p) == {StrInput(p), ListInput(<<PyStr(p)>>)}

\* C7: for a strategy, prompt p alone and the batch [p] both give one group
\* of as many response strings as the strategy samples per prompt, and
\* against the deterministic service the two calls return the same value.
C7_SingleEqualsOneElementBatch ==
    (pc = "returned" /\ IsStrategy) =>
        \A p \in Prompts :
            input \in SoleForms(p) =>
                /\ Len(result) = 1
                /\ Len(result[1]) = SamplesPer(cfg)
                /\ \A j \in 1..SamplesPer(cfg) : result[1][j] \in ValuesFor(p)
                /\ (/\ remote = "echo"
                    /\ prev.input \in SoleForms(p)
                    /\ prev.input # input) => prev.result = result

C7_Witness ==
    /\ pc = "returned"
    /\ remote = "echo"
    /\ cfg.kind = "sample"
    /\ cfg.n_samples = 2
    /\ prev.input = StrInput("a")
    /\ input = ListInput(<<PyStr("a")>>)
    /\ prev.result = result

\* C8: every strategy that was constructed has temperature > 0 exactly when
\* it is the multi-sample one (and temperature 0 when it is the greedy one).
C8_TemperatureMatchesPolicy ==
    IsStrategy =>
        /\ (cfg.temperature > 0) <=> (cfg.kind = "sample")
        /\ (cfg.temperature = 0) <=> (cfg.kind = "greedy")

\* An argument that is neither a string nor a list of strings.
BadInput(inp) ==
    \/ inp.type \notin {"str", "list"}
    \/ /\ inp.type = "list"
       /\ \E k \in 1..Len(inp.items) : inp.items[k].type # "str"

InCall == pc \in {"submit", "collect", "direct", "returned", "raised"}

\* C9: a call whose argument is neither a string nor a list of strings
\* raises at once, with nothing submitted and no completion call issued.
C9_BadInputRaisesBeforeWork ==
    (InCall /\ BadInput(input)) =>
        /\ pc = "raised"
        /\ signal \in {"TypeError", "AssertionError", "ValueError"}
        /\ futures = <<>>
        /\ responses = <<>>
        /\ result = None

C9_Witness ==
    /\ pc = "raised"
    /\ cfg.kind = "sample"
    /\ input = ListInput(<<PyStr("a"), PyInt>>)
    /\ signal = "AssertionError"
    /\ futures = <<>>

\* C10: at the return of send_requests every slot holds a response or a
\* sentinel, send_requests raises nothing, and with threads that keep
\* running and completion calls that resolve, every call of it returns.
AllFilled ==
    /\ Len(responses) = Len(prompts)
    /\ \A i \in 1..Len(responses) :
           responses[i] # None /\ responses[i] \in ValuesFor(prompts[i])

C10_BatchRunsToCompletion ==
    /\ [](BatchReturned => AllFilled)
    /\ [][InSendRequests => pc' \in {"submit", "collect", "returned"}]_vars
    /\ (pc = "submit") ~> (BatchReturned /\ AllFilled)

C10_Witness ==
    /\ BatchReturned
    /\ AllFilled
    /\ Len(prompts) = 2
    /\ responses[1] \in Sentinels
    /\ responses[2] \in Completions(prompts[2])

\* C11: when some work items of a batch fail on every attempt, send_requests
\* still returns: the slots of exactly those items hold the failure
\* sentinel and every other slot holds a completion of its own prompt.  The
\* step in which an item fails for good leaves every other item, the slots
\* and the caller's position as they were.
ItemStates == {"queued", "inflight", "done"}

FailedItems == {j \in 1..Len(futures) : futures[j].res \in Sentinels}

C11_FailuresAreIsolated ==
    /\ [](InSendRequests \/ BatchReturned =>
             \A j \in 1..Len(futures) : futures[j].st \in ItemStates)
    /\ [](BatchReturned =>
             /\ Len(responses) = Len(prompts)
             /\ \A i \in 1..Len(prompts) :
                    IF i \in FailedItems
                      THEN responses[i] \in Sentinels
                      ELSE responses[i] \in Completions(prompts[i]))
    /\ [][InSendRequests =>
             \A j \in 1..Len(futures) :
                 (j \notin FailedItems /\ futures'[j].res \in Sentinels) =>
                     /\ pc' = pc
                     /\ responses' = responses
                     /\ Len(futures') = Len(futures)
                     /\ \A k \in 1..Len(futures) :
                            k # j => futures'[k] = futures[k]]_vars

\* A single worker first fails item 1 for good and then completes item 2.
C11_Witness ==
    /\ BatchReturned
    /\ cfg.max_workers = 1
    /\ Len(responses) = 2
    /\ responses[1] \in Sentinels
    /\ responses[2] \in Completions(prompts[2])

\* C12: verify always returns 0 or 1 and never lets a fault out, be it
\* raised while the answer is extracted and normalised, raised by the
\* comparison, or the comparison running out of time.
C12_VerifyNeverRaises ==
    /\ ver.pc # "raised"
    /\ ver.pc = "returned" => ver.value \in {0, 1}

\* C13: tqdm's counter is 0 when a batch starts; it moves only by one, in
\* the very step that records one result; it never exceeds the number M of
\* prompts; and it reaches M once, in a step after which every slot is
\* written, and then stays there until send_requests returns.
NewlyWritten ==
    {i \in 1..Len(responses) : responses[i] = None /\ responses'[i] # None}

C13_ProgressCounter ==
    /\ [](pc = "submit" => progress = 0)
    /\ [](InSendRequests \/ BatchReturned => progress \in 0..Len(prompts))
    /\ [][InSendRequests =>
             /\ progress' \in {progress, progress + 1}
             /\ progress' - progress = Cardinality(NewlyWritten)
             /\ (progress' = Len(prompts) /\ progress # Len(prompts)) =>
                    \A i \in 1..Len(prompts) : responses'[i] # None
             /\ progress = Len(prompts) => progress' = progress]_vars

\* All four results of a batch of four are recorded and counted, and
\* send_requests has not returned yet.
C13_Witness ==
    /\ pc = "collect"
    /\ Len(prompts) = 4
    /\ progress = 4
    /\ \A i \in 1..4 : responses[i] # None

\* C14: the slot array has one slot per prompt from the start, all empty;
\* a slot changes only in an iteration of the caller's collection loop, only
\* from empty, and to the value of the work item submitted at its index;
\* every iteration fills one empty slot; and the array is handed back only
\* with every slot written.
C14_SlotsWrittenOnce ==
    /\ [](InSendRequests \/ BatchReturned => Len(responses) = Len(prompts))
    /\ [](pc = "submit" => \A i \in 1..Len(responses) : responses[i] = None)
    /\ [](BatchReturned => \A i \in 1..Len(responses) : responses[i] # None)
    /\ [][InSendRequests =>
             /\ \A i \in 1..Len(responses) :
                    responses'[i] # responses[i] =>
                        /\ responses[i] = None
                        /\ cursor' = cursor + 1
                        /\ i <= Len(futures)
                        /\ futures[i].i = i
                        /\ futures[i].prompt = prompts[i]
                        /\ futures[i].st = "done"
                        /\ responses'[i] = futures[i].res
             /\ cursor' # cursor =>
                    /\ cursor' = cursor + 1
                    /\ Cardinality(NewlyWritten) = 1]_vars

\* The first slot is written and the second is still empty although its
\* work item has finished.
C14_Witness ==
    /\ pc = "collect"
    /\ Len(responses) = 2
    /\ responses[1] # None
    /\ responses[2] = None
    /\ futures[2].st = "done"

\* C15: send_requests submits each index once and never again: there is
\* one work item per prompt, an item that has run is never queued or run a
\* second time, and every retry is a further attempt of the same item.  An
\* item issues at least one and at most MaxAttempts completion calls, so a
\* batch of M prompts issues between M and MaxAttempts * M of them.
CallsIssued ==
    {j \in 1..Len(futures) :
        /\ futures'[j].st = "inflight"
        /\ futures'[j].attempts = futures[j].attempts + 1}

C15_NoDispatcherRetry ==
    /\ [](InSendRequests \/ BatchReturned =>
             /\ Len(futures) <= Len(prompts)
             /\ \A j \in 1..Len(futures) :
                    /\ futures[j].i = j
                    /\ futures[j].attempts \in 0..MaxAttempts)
    /\ [](BatchReturned =>
             /\ Len(futures) = Len(prompts)
             /\ calls >= Len(prompts)
             /\ calls <= MaxAttempts * Len(prompts))
    /\ [][InSendRequests =>
             /\ calls' - calls = Cardinality(CallsIssued)
             /\ \A j \in 1..Len(futures) :
                    /\ futures[j].st = "done" => futures'[j] = futures[j]
                    /\ futures[j].st = "inflight" =>
                           futures'[j].st \in {"inflight", "done"}
                    /\ futures'[j].st = "done" =>
                           futures[j].st \in {"inflight", "done"}]_vars

\* Both items of a batch of two used up their attempts: six calls.
C15_Witness ==
    /\ BatchReturned
    /\ Len(prompts) = 2
    /\ calls = 2 * MaxAttempts
    /\ \A i \in 1..2 : responses[i] \in Sentinels

\* C16: the list SampleMultiple hands to send_requests for N prompts and S
\* samples has N * S elements in prompt-major order, element k (from 0)
\* being prompt k div S; for a single prompt it is S copies of that prompt.
SampleBatch ==
    /\ pc \in {"submit", "collect", "returned"}
    /\ cfg.kind = "sample"
    /\ Dispatch(cfg, input) = "batch"

C16_PromptMajorExpansion ==
    SampleBatch =>
        IF input.type = "str"
          THEN /\ Len(prompts) = cfg.n_samples
               /\ \A k \in 1..Len(prompts) : prompts[k] = input.s
          ELSE /\ Len(prompts) = Len(input.items) * cfg.n_samples
               /\ \A k \in 0..(Len(prompts) - 1) :
                      prompts[k + 1] = input.items[(k \div cfg.n_samples) + 1].s

\* Two different prompts, two samples: a, a, b, b.
C16_Witness ==
    /\ SampleBatch
    /\ pc = "submit"
    /\ cfg.n_samples = 2
    /\ input = ListInput(<<PyStr("a"), PyStr("b")>>)
    /\ prompts = <<"a", "a", "b", "b">>

\* C17: the attempts of one request come one after the other.  A request
\* has a completion call in flight exactly while it is running, which is one
\* call; attempt 1 starts when a pool thread takes the request, and attempt
\* k + 1 starts only in the step in which attempt k, then in flight, ends
\* in failure.  Attempts of different requests overlap.
C17_AttemptsAreSequential ==
    /\ [](Active =>
             \A j \in 1..Len(futures) :
                 /\ Running(futures[j]) <=> futures[j].attempts >= 1
                 /\ futures[j].st = "done" <=> futures[j].res # None)
    /\ [][Active =>
             \A j \in 1..Len(futures) :
                 futures'[j].attempts > futures[j].attempts =>
                     /\ futures'[j].attempts = futures[j].attempts + 1
                     /\ Running(futures'[j])
                     /\ futures'[j].res = None
                     /\ IF futures[j].attempts = 0
                          THEN futures[j].st = "queued"
                          ELSE Running(futures[j])]_vars

\* Request 1 is in its third attempt while request 2 is in its first.
C17_Witness ==
    /\ pc = "collect"
    /\ Len(futures) = 2
    /\ Running(futures[1]) /\ futures[1].attempts = 3
    /\ Running(futures[2]) /\ futures[2].attempts = 1

\* C18: once the object is constructed no step changes its configuration,
\* whether a call succeeds, retries, ends in sentinels or raises; and a call
\* depends on nothing an earlier call left behind: against the deterministic
\* service a call returns what the earlier call with the same input returned.
C18_ConfigurationIsFrozen ==
    /\ [][pc # "new" => cfg' = cfg]_vars
    /\ []((pc = "returned" /\ remote = "echo" /\ prev.input = input) =>
             prev.result = result)

\* The same two-prompt batch sampled twice, with the same grouped result.
C18_Witness ==
    /\ pc = "returned"
    /\ remote = "echo"
    /\ cfg.kind = "sample"
    /\ cfg.n_samples = 2
    /\ input = ListInput(<<PyStr("a"), PyStr("b")>>)
    /\ prev.input = input
    /\ prev.result = result
    /\ Len(result) = 2

\* C19: results are collected in the order of submission, not of
\* completion: whenever tqdm's counter is k, the first k slots are filled and
\* the others are empty, even when later work items have finished; the
\* counter is never above the number of finished work items.
Finished == {j \in 1..Len(futures) : futures[j].st = "done"}

EmptyBatch ==
    /\ pc \in {"submit", "collect", "returned"}
    /\ input = ListInput(<<>>)

C20_EmptyBatch ==
    /\ [](EmptyBatch =>
             /\ prompts = <<>>
             /\ futures = <<>>
             /\ responses = <<>>
             /\ pc = "returned" => result = <<>>)
    /\ (EmptyBatch /\ pc = "submit") ~>
           (EmptyBatch /\ pc = "returned" /\ result = <<>>)

\* SampleMultiple with two samples has returned no group for [].
C20_Witness ==
    /\ EmptyBatch
    /\ pc = "returned"
    /\ cfg.kind = "sample"
    /\ cfg.n_samples = 2
    /\ result = <<>>

====
